---- MODULE Spec2Model ----
(***************************************************************************)
(* Model of the methane-flux export scripts.                               *)
(*                                                                         *)
(*   SpecAcc  - the segment accumulator loop of extract_ch4.py             *)
(*   SpecDet  - the three session-detection queries (extract_ch4.py /      *)
(*              extract_ch4_2.py, extract_chambers.py, extract_ch4_3.py)   *)
(*   SpecMain - the command surface and session loop of extract_ch4_3.py   *)
(*                                                                         *)
(* A data frame is modelled as a piece [s, lo, hi]: the rows lo..hi-1      *)
(* (0-based, as iloc counts them) of the result fetched for session s.     *)
(***************************************************************************)
EXTENDS Integers, Sequences, FiniteSets, TLC

VARIABLES
    \* ---- extract_ch4.py, extract_chamber_ch4 ----
    all_active_sessions, \* result of fetch_all_sessions, ordered by ChamberID
    time_sample,         \* target T (--sample_time)
    session_count,
    segment_count,
    idx,
    dfs,                 \* pending buffer: sequence of pieces
    total_duration,      \* acc
    time_diff,           \* residue computed at the last split ("unset" before)
    segments,            \* history of every combined_df, in flush order
    pc,                  \* "loop" | "done" | "crashed" | "off"
    \* ---- session-detection queries ----
    JAAR_raw,            \* the status log; TIMESTAMP of a row is its position
    lateral_sessions,    \* extract_ch4.py / extract_ch4_2.py result
    active_periods,      \* extract_chambers.py result
    ordinal_sessions,    \* extract_ch4_3.py result
    fetched,             \* the queries that have returned
    \* ---- extract_ch4_3.py, __main__ and extract_chamber_ch4 ----
    env,                 \* what the outside world does to this run
    mpc,                 \* position of the script
    con,                 \* "none" | "open" | "closed"
    exit_status,         \* "running" or the process exit status
    found,               \* len(all_active_sessions) of extract_ch4_3.py
    i,                   \* loop index of extract_ch4_3.py
    ok_count,            \* session_count of extract_ch4_3.py
    skipped_count,
    saved                \* CSV files opened for writing by extract_ch4_3.py

accVars  == <<all_active_sessions, time_sample, session_count, segment_count,
              idx, dfs, total_duration, time_diff, segments, pc>>
detVars  == <<JAAR_raw, lateral_sessions, active_periods, ordinal_sessions,
              fetched>>
mainVars == <<env, mpc, con, exit_status, found, i, ok_count, skipped_count, saved>>
vars     == <<accVars, detVars, mainVars>>

----------------------------------------------------------------------------
(* Bounds *)
MaxSessions == 4
MaxLog      == 5
MaxFound    == 3

(* Input domains *)
Chambers      == {7, 8}
DurationSet   == {100, 150, 200, 1000}
TimeSampleSet == {300, 400}
StatusSet     == {0, 1, 2}

Max(a, b) == IF a >= b THEN a ELSE b
Min(a, b) == IF a <= b THEN a ELSE b

----------------------------------------------------------------------------
(* Idle values of the parts a specification does not run *)
AccOff ==
    /\ all_active_sessions = <<>>
    /\ time_sample = 0
    /\ session_count = 0
    /\ segment_count = 0
    /\ idx = 0
    /\ dfs = <<>>
    /\ total_duration = 0
    /\ time_diff = "unset"
    /\ segments = <<>>
    /\ pc = "off"

DetOff ==
    /\ JAAR_raw = <<>>
    /\ lateral_sessions = <<>>
    /\ active_periods = <<>>
    /\ ordinal_sessions = <<>>
    /\ fetched = {}

MainOff ==
    /\ env = [db_exists |-> FALSE, connect_ok |-> FALSE, validate |-> FALSE,
              valid |-> FALSE, query_ok |-> FALSE]
    /\ mpc = "off"
    /\ con = "none"
    /\ exit_status = "running"
    /\ found = 0
    /\ i = 0
    /\ ok_count = 0
    /\ skipped_count = 0
    /\ saved = {}

----------------------------------------------------------------------------
(* extract_ch4.py: the accumulator loop                                    *)

\* A row of the fetch_all_sessions result.  dense tells how the log was
\* sampled: one row per second (duration + 1 rows between start and end,
\* both included) or only the start row and the end row.
SessionRows == [ChamberID : Chambers, duration_seconds : DurationSet,
                dense : BOOLEAN]

NRows(row) == IF row.dense THEN row.duration_seconds + 1 ELSE 2

\* ORDER BY s.ChamberID, s.start_time: the first k sessions belong to the
\* lower chamber, the others to the higher one
SessionLists ==
    UNION {
        { [j \in 1..n |-> [ChamberID |-> IF j <= k THEN 7 ELSE 8,
                           duration_seconds |-> d[j],
                           dense |-> dn]] :
            d \in [1..n -> DurationSet] }
        : n \in 0..MaxSessions, k \in 0..MaxSessions, dn \in BOOLEAN }

_len == Len(all_active_sessions)

\* df = con.execute(data_query).df() for the session at 0-based index k
data_query(k) == [s |-> k, lo |-> 0, hi |-> NRows(all_active_sessions[k + 1])]

PieceLen(p) == p.hi - p.lo

\* number of rows selected by df.iloc[:k] out of n rows (Python slice bounds)
IlocStop(n, k) == IF k < 0 THEN Max(0, n + k) ELSE Min(k, n)

\* df.iloc[:k]
IlocHead(df, k) == [s |-> df.s, lo |-> df.lo, hi |-> df.lo + IlocStop(PieceLen(df), k)]
\* df.iloc[k + 1:], a split that loses the row at the split point
IlocTailSkipsRow(df, k) ==
    [s |-> df.s, lo |-> Min(df.hi, df.lo + IlocStop(PieceLen(df), k) + 1), hi |-> df.hi]

\* df.iloc[k:]
IlocTail(df, k) == [s |-> df.s, lo |-> df.lo + IlocStop(PieceLen(df), k), hi |-> df.hi]

RECURSIVE SumLen(_)
SumLen(ps) == IF ps = <<>> THEN 0 ELSE PieceLen(Head(ps)) + SumLen(Tail(ps))

\* dfs[:-1]
AllButLast(ps) == SubSeq(ps, 1, Len(ps) - 1)

\* the comparison of line 104 turned around
MustSplitInverted(total, T) == total <= T

\* (total_duration >= time_sample), line 104
MustSplit(total, T) == total >= T

\* time_diff = total_duration - time_sample, the residue without the "+ 1"
ResidueIsOverflow(total, T) == total - T

\* time_diff = total_duration - time_sample + 1, line 105
Residue(total, T) == total - T + 1

\* a flush condition that forgets the chamber change
FlushNowIgnoresChamber(time_exceed, time_equal, different_id, all_session_processed) ==
    time_exceed \/ time_equal \/ all_session_processed

\* the flush condition of line 119
FlushNow(time_exceed, time_equal, different_id, all_session_processed) ==
    time_exceed \/ time_equal \/ different_id \/ all_session_processed

\* a carry-over branch taken on overflow alone, chamber change or not
CarryOverIgnoresChamber(time_exceed, different_id) == time_exceed

\* the carry-over branch of line 121
CarryOver(time_exceed, different_id) == time_exceed /\ ~different_id

\* segment_count as it is when session_key is formatted (line 145)
LabelAtWrite(count, carry) == IF carry THEN count ELSE 0

InitAcc ==
    /\ all_active_sessions \in SessionLists
    /\ time_sample \in TimeSampleSet
    /\ session_count = 0
    /\ segment_count = 0
    /\ idx = 0
    /\ dfs = <<>>
    /\ total_duration = 0
    /\ time_diff = "unset"
    /\ segments = <<>>
    /\ pc = "loop"
    /\ DetOff
    /\ MainOff

\* all_active_sessions.iloc[idx] on an empty frame raises IndexError
IndexError ==
    /\ pc = "loop"
    /\ idx >= _len
    /\ session_count' = session_count + 1
    /\ pc' = "crashed"
    /\ UNCHANGED <<all_active_sessions, time_sample, segment_count, idx, dfs,
                   total_duration, time_diff, segments>>
    /\ UNCHANGED <<detVars, mainVars>>

\* One pass through the body of while(True)
Iterate ==
    /\ pc = "loop"
    /\ idx < _len
    /\ LET row      == all_active_sessions[idx + 1]
           has_next == idx < _len - 1
           next_row == all_active_sessions[idx + 2]
           duration_seconds == row.duration_seconds
           df       == data_query(idx)
           idx1     == idx + 1
           total1   == total_duration + duration_seconds
           split    == MustSplit(total1, time_sample)
           td       == IF split THEN Residue(total1, time_sample) ELSE time_diff
           idx_sep  == duration_seconds - td
           dfs1     == IF split
                       THEN dfs \o <<IlocHead(df, idx_sep), IlocTail(df, idx_sep)>>
                       ELSE Append(dfs, df)
           all_session_processed == idx1 >= _len
           different_id == IF has_next THEN row.ChamberID # next_row.ChamberID
                           ELSE TRUE
           time_exceed  == total1 > time_sample
           time_equal   == total1 = time_sample
           flush    == FlushNow(time_exceed, time_equal, different_id,
                                all_session_processed)
           carry    == CarryOver(time_exceed, different_id)
           count1   == segment_count + 1
           combined == IF carry THEN AllButLast(dfs1) ELSE dfs1
           total2   == IF carry THEN td ELSE 0
           label    == LabelAtWrite(count1, carry)
       IN  /\ session_count' = session_count + 1
           /\ idx' = idx1
           /\ time_diff' = td
           /\ IF flush
              THEN /\ segment_count' = label
                   /\ dfs' = IF carry THEN <<dfs1[Len(dfs1)]>> ELSE <<>>
                   /\ total_duration' = total2
                   /\ segments' = Append(segments,
                          [chamber_id |-> row.ChamberID,
                           label      |-> label,
                           rows       |-> combined,
                           duration   |-> total1 - total2,
                           written    |-> SumLen(combined) > 0])
                   /\ pc' = IF all_session_processed THEN "done" ELSE "loop"
              ELSE /\ segment_count' = segment_count
                   /\ dfs' = dfs1
                   /\ total_duration' = total1
                   /\ segments' = segments
                   /\ pc' = "loop"
    /\ UNCHANGED <<all_active_sessions, time_sample>>
    /\ UNCHANGED <<detVars, mainVars>>

NextAcc == Iterate \/ IndexError

SpecAcc == InitAcc /\ [][NextAcc]_vars

----------------------------------------------------------------------------
(* Properties of the accumulator loop                                      *)

ChamberOfPiece(p) == all_active_sessions[p.s + 1].ChamberID

\* Canonical form of a row sequence given as pieces: empty pieces removed,
\* adjacent pieces of one session joined.  Two piece sequences hold the same
\* rows in the same order iff their canonical forms are equal.
RECURSIVE Norm(_)
Norm(ps) ==
    IF ps = <<>> THEN <<>>
    ELSE LET h == Head(ps)
             r == Norm(Tail(ps))
         IN  IF h.hi <= h.lo THEN r
             ELSE IF r # <<>> /\ r[1].s = h.s /\ r[1].lo = h.hi
                  THEN <<[s |-> h.s, lo |-> h.lo, hi |-> r[1].hi]>> \o Tail(r)
                  ELSE <<h>> \o r

\* rows of all Segments flushed so far for chamber c, in flush order
RECURSIVE FlushedUpTo(_, _)
FlushedUpTo(c, n) ==
    IF n = 0 THEN <<>>
    ELSE FlushedUpTo(c, n - 1) \o
         (IF segments[n].chamber_id = c THEN segments[n].rows ELSE <<>>)

Flushed(c) == FlushedUpTo(c, Len(segments))

\* rows still waiting in the buffer for chamber c
Pending(c) == SelectSeq(dfs, LAMBDA p : ChamberOfPiece(p) = c)

\* row-sets fetched so far for the sessions of chamber c, in session order
RECURSIVE FetchedUpTo(_, _)
FetchedUpTo(c, n) ==
    IF n = 0 THEN <<>>
    ELSE FetchedUpTo(c, n - 1) \o
         (IF all_active_sessions[n].ChamberID = c
          THEN <<[s |-> n - 1, lo |-> 0, hi |-> NRows(all_active_sessions[n])]>>
          ELSE <<>>)

Fetched(c) == FetchedUpTo(c, idx)

\* C1: for every chamber the rows of the Segments flushed so far, followed by
\* the rows still buffered, are exactly the rows fetched so far for that
\* chamber's sessions, in order (nothing dropped, duplicated or reordered by
\* accumulation or by a split); when the loop has ended the buffer is empty,
\* so the flushed Segments alone reproduce the fetched rows.
C1_RowConservation ==
    /\ \A c \in Chambers : Norm(Flushed(c) \o Pending(c)) = Norm(Fetched(c))
    /\ pc \in {"done", "crashed"} => dfs = <<>>

\* a finished run in which a split happened and the carried rows were flushed
\* by a later Segment
C1_Witness ==
    /\ pc = "done"
    /\ \E a \in DOMAIN segments : \E q \in DOMAIN segments[a].rows :
          /\ segments[a].rows[q].lo > 0
          /\ PieceLen(segments[a].rows[q]) > 0

\* C2 (as claimed): no two non-empty Segments of one run are written to the
\* same file name Chamber_<id>_Segment_<n>.
C2_Original ==
    \A a \in DOMAIN segments : \A b \in DOMAIN segments :
        (a < b /\ segments[a].written /\ segments[b].written)
            => <<segments[a].chamber_id, segments[a].label>>
                 # <<segments[b].chamber_id, segments[b].label>>

\* C3 (as claimed): every emitted Segment has a cumulative duration of at
\* most the target T.
C3_Original ==
    \A a \in DOMAIN segments : segments[a].duration <= time_sample

\* The step about to run is a flush with acc > T while the next session
\* belongs to the same chamber.
SplitFlushAhead ==
    /\ pc = "loop"
    /\ idx + 1 < _len
    /\ total_duration + all_active_sessions[idx + 1].duration_seconds > time_sample
    /\ all_active_sessions[idx + 1].ChamberID = all_active_sessions[idx + 2].ChamberID

\* rows [from, n) of the frame fetched for session k, with Python's reading of
\* a possibly negative or too large slice start
RowsFrom(k, cut) ==
    LET n     == NRows(all_active_sessions[k + 1])
        start == IF cut < 0 THEN (IF n + cut < 0 THEN 0 ELSE n + cut)
                 ELSE (IF cut > n THEN n ELSE cut)
    IN  [s |-> k, lo |-> start, hi |-> n]

\* what a split flush leaves behind when the residue carried over is res
SplitFlushLeaves(res) ==
    LET d == all_active_sessions[idx + 1].duration_seconds
    IN  /\ total_duration' = res
        /\ dfs' = <<RowsFrom(idx, d - res)>>
        /\ Len(segments') = Len(segments) + 1
        /\ segments'[Len(segments')].duration = total_duration + d - res
        /\ Norm(segments'[Len(segments')].rows \o dfs')
             = Norm(dfs \o <<RowsFrom(idx, 0)>>)

\* C4 (amended): in a flush with acc > T and the next session in the same
\* chamber, the last appended row-set is split at row index
\* session_duration - (overflow + 1), overflow = acc - T; acc for the next
\* round is overflow + 1 and the emitted Segment accounts for T - 1 seconds.
C4_SplitCarriesOverflowPlusOne ==
    [][SplitFlushAhead =>
          LET acc == total_duration + all_active_sessions[idx + 1].duration_seconds
          IN  /\ SplitFlushLeaves(acc - time_sample + 1)
              /\ segments'[Len(segments')].duration = time_sample - 1]_vars

\* C4 (as claimed): the split is at row index session_duration - overflow,
\* the emitted Segment totals exactly T and acc for the next round is overflow.
C4_Original ==
    [][SplitFlushAhead =>
          LET acc == total_duration + all_active_sessions[idx + 1].duration_seconds
          IN  /\ SplitFlushLeaves(acc - time_sample)
              /\ segments'[Len(segments')].duration = time_sample]_vars

\* T = 400, chamber 7 with durations 150, 100, 200 and one more session of
\* chamber 7 to come: the third session has just been split, at row 149, and
\* the new buffer starts with acc = 51
C4_Witness ==
    /\ time_sample = 400
    /\ _len = 4
    /\ \A k \in 1..4 : all_active_sessions[k].ChamberID = 7 /\ all_active_sessions[k].dense
    /\ all_active_sessions[1].duration_seconds = 150
    /\ all_active_sessions[2].duration_seconds = 100
    /\ all_active_sessions[3].duration_seconds = 200
    /\ idx = 3
    /\ total_duration = 51
    /\ dfs = <<[s |-> 2, lo |-> 149, hi |-> 201]>>
    /\ Len(segments) = 1
    /\ segments[1].duration = 399

\* C8: every Segment holds rows of its own chamber only, and the buffer never
\* holds rows of a chamber other than that of the session to be processed
\* next: the flush forced by a chamber change happens in the step that
\* appended the last session of the old chamber.
C8_NoMixedSegments ==
    /\ \A a \in DOMAIN segments : \A q \in DOMAIN segments[a].rows :
          ChamberOfPiece(segments[a].rows[q]) = segments[a].chamber_id
    /\ \A q \in DOMAIN dfs :
          /\ idx < _len
          /\ ChamberOfPiece(dfs[q]) = all_active_sessions[idx + 1].ChamberID

\* chamber 7 was flushed below the target because chamber 8 came next, and
\* rows of chamber 8 are now being accumulated
C8_Witness ==
    /\ \E a \in DOMAIN segments :
          /\ segments[a].chamber_id = 7
          /\ segments[a].duration < time_sample
          /\ segments[a].written
    /\ dfs # <<>>
    /\ \A q \in DOMAIN dfs : ChamberOfPiece(dfs[q]) = 8

\* C9 (as claimed): the k-th Segment flushed for a chamber carries label k.
C9_Original ==
    \A a \in DOMAIN segments :
        segments[a].label =
            Cardinality({b \in 1..a : segments[b].chamber_id = segments[a].chamber_id})

\* The step about to run triggers a flush that is not a split flush: an exact
\* match, a chamber change or the end of input (with or without overflow).
FullFlushAhead ==
    /\ pc = "loop"
    /\ idx < _len
    /\ LET acc  == total_duration + all_active_sessions[idx + 1].duration_seconds
           last == idx + 1 = _len
           same == ~last /\ all_active_sessions[idx + 1].ChamberID
                              = all_active_sessions[idx + 2].ChamberID
       IN  /\ acc >= time_sample \/ ~same \/ last
           /\ ~(acc > time_sample /\ same)

\* C11: a flush that is not (acc > T and next session in the same chamber),
\* i.e. an exact match, a chamber change or exhausted input, emits the entire
\* buffer, the rows just fetched included, as one Segment with no carry-over;
\* afterwards the buffer is empty and acc = 0.  This covers acc > T together
\* with a chamber change: the Segment then accounts for more than T.
C11_FullFlushResets ==
    [][FullFlushAhead =>
          LET d == all_active_sessions[idx + 1].duration_seconds
          IN  /\ dfs' = <<>>
              /\ total_duration' = 0
              /\ Len(segments') = Len(segments) + 1
              /\ SubSeq(segments', 1, Len(segments)) = segments
              /\ segments'[Len(segments')].duration = total_duration + d
              /\ segments'[Len(segments')].written
              /\ Norm(segments'[Len(segments')].rows)
                   = Norm(dfs \o <<RowsFrom(idx, 0)>>)]_vars

\* chamber 7 has just been flushed in full with acc > T because chamber 8
\* comes next: the overflow went into that Segment and nothing is carried
C11_Witness ==
    /\ pc = "loop"
    /\ idx < _len
    /\ all_active_sessions[idx + 1].ChamberID = 8
    /\ segments # <<>>
    /\ segments[Len(segments)].chamber_id = 7
    /\ segments[Len(segments)].duration > time_sample
    /\ Len(segments[Len(segments)].rows) > 2
    /\ dfs = <<>>
    /\ total_duration = 0

\* The step about to run leaves acc below the target, with another session of
\* the same chamber to come.
NoFlushAhead ==
    /\ pc = "loop"
    /\ idx + 1 < _len
    /\ total_duration + all_active_sessions[idx + 1].duration_seconds < time_sample
    /\ all_active_sessions[idx + 1].ChamberID = all_active_sessions[idx + 2].ChamberID

\* C12: in a step where, after appending the session, acc < T, the next
\* session belongs to the same chamber and input is not exhausted, no Segment
\* is emitted and no file is written; the new row-set is appended to the
\* buffer whole, and the buffer, acc and the segment counter go on to the next
\* step as they are.
C12_NoFlushBelowTarget ==
    [][NoFlushAhead =>
          /\ segments' = segments
          /\ dfs' = Append(dfs, RowsFrom(idx, 0))
          /\ total_duration'
               = total_duration + all_active_sessions[idx + 1].duration_seconds
          /\ segment_count' = segment_count
          /\ idx' = idx + 1
          /\ pc' = "loop"]_vars

\* after a split flush (counter at 1, residue in the buffer) a further session
\* has been appended whole without a flush
C12_Witness ==
    /\ pc = "loop"
    /\ segment_count = 1
    /\ Len(segments) = 1
    /\ Len(dfs) = 2
    /\ dfs[1].lo > 0
    /\ dfs[2] = [s |-> idx - 1, lo |-> 0, hi |-> NRows(all_active_sessions[idx])]
    /\ total_duration < time_sample

\* C14 (as claimed): for every list of detected sessions, the empty one
\* included, the loop ends normally: no exception leaves it, each session is
\* fetched exactly once in index order, and the loop is left through the
\* break right after the flush of the last session.
C14_Original ==
    /\ pc # "crashed"
    /\ pc \in {"loop", "done"} => session_count = idx /\ idx <= _len
    /\ pc = "done" =>
          /\ idx = _len
          /\ dfs = <<>>
          /\ segments # <<>>
          /\ Norm(segments[Len(segments)].rows) # <<>>
          /\ segments[Len(segments)].rows[Len(segments[Len(segments)].rows)].s = _len - 1

----------------------------------------------------------------------------
(* The session-detection queries                                           *)

\* SQL NULL (no status of the log equals it)
NULL == -1

LogRows == [ChamberID : Chambers, ChamberStatus : StatusSet]

Logs == UNION {[1..n -> LogRows] : n \in 0..MaxLog}

SetMax(S) == CHOOSE x \in S : \A y \in S : y <= x
SetMin(S) == CHOOSE x \in S : \A y \in S : x <= y

\* PARTITION BY ChamberID ORDER BY TIMESTAMP: the rows of t's chamber
Partition(t) == {u \in DOMAIN JAAR_raw : JAAR_raw[u].ChamberID = JAAR_raw[t].ChamberID}

\* LAG(ChamberStatus) OVER (PARTITION BY ChamberID ORDER BY TIMESTAMP)
prev_status(t) ==
    LET before == {u \in Partition(t) : u < t}
    IN  IF before = {} THEN NULL ELSE JAAR_raw[SetMax(before)].ChamberStatus

\* LEAD(ChamberStatus) OVER (PARTITION BY ChamberID ORDER BY TIMESTAMP)
next_status(t) ==
    LET after == {u \in Partition(t) : u > t}
    IN  IF after = {} THEN NULL ELSE JAAR_raw[SetMin(after)].ChamberStatus

\* WHERE ChamberStatus != 0 AND (prev_status = 0 OR prev_status IS NULL)
session_start ==
    {t \in DOMAIN JAAR_raw :
        JAAR_raw[t].ChamberStatus # 0 /\ (prev_status(t) = 0 \/ prev_status(t) = NULL)}

\* WHERE ChamberStatus != 0 AND (next_status = 0 OR next_status IS NULL)
session_end ==
    {t \in DOMAIN JAAR_raw :
        JAAR_raw[t].ChamberStatus # 0 /\ (next_status(t) = 0 \/ next_status(t) = NULL)}

SessionRow(s, e) ==
    [ChamberID |-> JAAR_raw[s].ChamberID, start_time |-> s, end_time |-> e,
     duration_seconds |-> e - s]

\* ORDER BY s.ChamberID, s.start_time
OrderKeyLeq(a, b) ==
    \/ a.ChamberID < b.ChamberID
    \/ a.ChamberID = b.ChamberID /\ a.start_time <= b.start_time

\* every way the engine may return the rows R under that ORDER BY (rows with
\* equal keys come in any order)
RECURSIVE OrderBy(_)
OrderBy(R) ==
    IF R = {} THEN {<<>>}
    ELSE UNION {{<<m>> \o q : q \in OrderBy(R \ {m})} :
                 m \in {x \in R : \A y \in R : OrderKeyLeq(x, y)}}

\* the ends a start may be paired with: e.ChamberID = s.ChamberID AND
\* e.end_time > s.start_time
EndsAfter(s) ==
    {e \in session_end : JAAR_raw[e].ChamberID = JAAR_raw[s].ChamberID /\ e > s}

\* extract_ch4.py / extract_ch4_2.py: JOIN LATERAL (... ORDER BY e.end_time
\* LIMIT 1) e ON true
LateralJoin ==
    {SessionRow(s, SetMin(EndsAfter(s))) : s \in {x \in session_start : EndsAfter(x) # {}}}

\* extract_chambers.py: JOIN session_ends e ON s.ChamberID = e.ChamberID
\* WHERE e.end_time > s.start_time
PlainJoin ==
    UNION {{SessionRow(s, e) : e \in EndsAfter(s)} : s \in session_start}

\* extract_ch4_3.py, session_boundaries: the rows kept and their boundary_type
boundary_type(t) ==
    IF JAAR_raw[t].ChamberStatus # 1 THEN "NULL"
    ELSE IF prev_status(t) # 1 THEN "START"
    ELSE IF next_status(t) # 1 THEN "END"
    ELSE "NULL"

session_starts == {t \in DOMAIN JAAR_raw : boundary_type(t) = "START"}
session_ends   == {t \in DOMAIN JAAR_raw : boundary_type(t) = "END"}

\* ROW_NUMBER() OVER (PARTITION BY ChamberID ORDER BY TIMESTAMP) within B
session_num(B, t) == Cardinality({u \in B \cap Partition(t) : u <= t})

\* extract_ch4_3.py: JOIN session_ends e ON s.ChamberID = e.ChamberID AND
\* s.session_num = e.session_num WHERE s.start_time < e.end_time
OrdinalJoin ==
    {SessionRow(s, e) : <<s, e>> \in
        {p \in session_starts \X session_ends :
            /\ JAAR_raw[p[1]].ChamberID = JAAR_raw[p[2]].ChamberID
            /\ session_num(session_starts, p[1]) = session_num(session_ends, p[2])
            /\ p[1] < p[2]}}

InitDet ==
    /\ JAAR_raw \in Logs
    /\ lateral_sessions = <<>>
    /\ active_periods = <<>>
    /\ ordinal_sessions = <<>>
    /\ fetched = {}
    /\ AccOff
    /\ MainOff

\* extract_ch4.py, extract_ch4_2.py: con.execute(fetch_all_sessions).df()
FetchLateral ==
    /\ "lateral" \notin fetched
    /\ fetched' = fetched \cup {"lateral"}
    /\ lateral_sessions' \in OrderBy(LateralJoin)
    /\ UNCHANGED <<JAAR_raw, active_periods, ordinal_sessions>>
    /\ UNCHANGED <<accVars, mainVars>>

\* extract_chambers.py: con.execute(active_periods_query).fetchall()
FetchActivePeriods ==
    /\ "plain" \notin fetched
    /\ fetched' = fetched \cup {"plain"}
    /\ active_periods' \in OrderBy(PlainJoin)
    /\ UNCHANGED <<JAAR_raw, lateral_sessions, ordinal_sessions>>
    /\ UNCHANGED <<accVars, mainVars>>

\* extract_ch4_3.py: con.execute(fetch_all_sessions).df()
FetchOrdinal ==
    /\ "ordinal" \notin fetched
    /\ fetched' = fetched \cup {"ordinal"}
    /\ ordinal_sessions' \in OrderBy(OrdinalJoin)
    /\ UNCHANGED <<JAAR_raw, lateral_sessions, active_periods>>
    /\ UNCHANGED <<accVars, mainVars>>

NextDet == FetchLateral \/ FetchActivePeriods \/ FetchOrdinal

SpecDet == InitDet /\ [][NextDet]_vars

----------------------------------------------------------------------------
(* Properties of the session-detection queries                             *)

\* C5 (as claimed): the sessions returned by the LATERAL pairing are ordered
\* by start_time within a chamber and pairwise non-overlapping.
C5_Original ==
    "lateral" \in fetched =>
        \A a \in DOMAIN lateral_sessions : \A b \in DOMAIN lateral_sessions :
            (a < b /\ lateral_sessions[a].ChamberID = lateral_sessions[b].ChamberID)
                => /\ lateral_sessions[a].start_time < lateral_sessions[b].start_time
                   /\ lateral_sessions[a].end_time < lateral_sessions[b].start_time

\* t begins a maximal run of rows with status != 0 of its chamber
RunStart(t) ==
    /\ JAAR_raw[t].ChamberStatus # 0
    /\ \A u \in Partition(t) :
          (u < t /\ \A v \in Partition(t) : ~(u < v /\ v < t))
              => JAAR_raw[u].ChamberStatus = 0

\* t begins a run that has at least two rows
LongRunStart(t) ==
    /\ RunStart(t)
    /\ \E u \in Partition(t) :
          /\ u > t
          /\ \A v \in Partition(t) : ~(t < v /\ v < u)
          /\ JAAR_raw[u].ChamberStatus # 0

\* C6 (as claimed): a chamber whose log holds N maximal runs of status != 0,
\* each of at least two rows, yields exactly N active periods.
C6_Original ==
    "plain" \in fetched =>
        \A c \in Chambers :
            LET runs == {t \in DOMAIN JAAR_raw : JAAR_raw[t].ChamberID = c /\ RunStart(t)}
            IN  (\A t \in runs : LongRunStart(t))
                    => Cardinality({k \in DOMAIN active_periods :
                                       active_periods[k].ChamberID = c})
                         = Cardinality(runs)

\* C7 (as claimed): every session returned by the ordinal pairing is a maximal
\* active run: every row of the chamber in [start_time, end_time] is active,
\* the row just before start_time and the row just after end_time are
\* inactive or absent.
C7_Original ==
    "ordinal" \in fetched =>
        \A k \in DOMAIN ordinal_sessions :
            LET r == ordinal_sessions[k]
            IN  /\ \A t \in Partition(r.start_time) :
                      (r.start_time <= t /\ t <= r.end_time)
                          => JAAR_raw[t].ChamberStatus = 1
                /\ prev_status(r.start_time) # 1
                /\ next_status(r.end_time) # 1

----------------------------------------------------------------------------
(* extract_ch4_3.py: the command surface and the session loop              *)

\* db_exists  : os.path.exists(args.db)
\* connect_ok : duckdb.connect does not raise
\* validate   : --validate was given
\* valid      : validate_database(con) returns True
\* query_ok   : con.execute(fetch_all_sessions) does not raise
Environments == [db_exists : BOOLEAN, connect_ok : BOOLEAN, validate : BOOLEAN,
                 valid : BOOLEAN, query_ok : BOOLEAN]

\* what can happen to one session of the loop
Outcomes == {"parse_error", "query_error", "empty", "write_error", "saved"}

InitMain ==
    /\ env \in Environments
    /\ mpc = "check_db"
    /\ con = "none"
    /\ exit_status = "running"
    /\ found = 0
    /\ i = 0
    /\ ok_count = 0
    /\ skipped_count = 0
    /\ saved = {}
    /\ AccOff
    /\ DetOff

\* exit status of the script when extract_chamber_ch4 returns normally and
\* the interpreter runs off the end of the file
ExitAfterReturn == 0

\* if not os.path.exists(args.db): exit(1)
CheckDbFile ==
    /\ mpc = "check_db"
    /\ IF env.db_exists
       THEN mpc' = "connect" /\ exit_status' = exit_status
       ELSE mpc' = "exited" /\ exit_status' = 1
    /\ UNCHANGED <<env, con, found, i, ok_count, skipped_count, saved>>
    /\ UNCHANGED <<accVars, detVars>>

\* con = duckdb.connect(...); on failure "except Exception" exits with 1 and
\* the finally clause finds no con to close
Connect ==
    /\ mpc = "connect"
    /\ IF env.connect_ok
       THEN /\ con' = "open"
            /\ mpc' = IF env.validate THEN "validate" ELSE "extract"
            /\ exit_status' = exit_status
       ELSE /\ con' = con
            /\ mpc' = "exited"
            /\ exit_status' = 1
    /\ UNCHANGED <<env, found, i, ok_count, skipped_count, saved>>
    /\ UNCHANGED <<accVars, detVars>>

\* if args.validate: if not validate_database(con): exit(1)
Validate ==
    /\ mpc = "validate"
    /\ IF env.valid
       THEN mpc' = "extract" /\ con' = con /\ exit_status' = exit_status
       ELSE mpc' = "exited" /\ con' = "closed" /\ exit_status' = 1
    /\ UNCHANGED <<env, found, i, ok_count, skipped_count, saved>>
    /\ UNCHANGED <<accVars, detVars>>

\* extract_chamber_ch4, lines 69-79: the session query; a failure is printed
\* and the function returns, as it does when no session is found
FetchSessions ==
    /\ mpc = "extract"
    /\ IF env.query_ok
       THEN \E n \in 0..MaxFound :
                /\ found' = n
                /\ IF n = 0
                   THEN mpc' = "exited" /\ con' = "closed"
                        /\ exit_status' = ExitAfterReturn
                   ELSE mpc' = "loop" /\ con' = con /\ exit_status' = exit_status
       ELSE /\ found' = found
            /\ mpc' = "exited"
            /\ con' = "closed"
            /\ exit_status' = ExitAfterReturn
    /\ UNCHANGED <<env, i, ok_count, skipped_count, saved>>
    /\ UNCHANGED <<accVars, detVars>>

\* session_count after one pass of the loop body
SessionCountAfter(n, outcome) ==
    IF outcome \in {"saved", "write_error"} THEN n + 1 ELSE n

\* skipped_count after one pass of the loop body
SkippedCountAfter(n, outcome) ==
    IF outcome \in {"parse_error", "query_error", "empty", "write_error"}
    THEN n + 1 ELSE n

\* one pass of "for i in range(len(all_active_sessions))", lines 85-160
ProcessSession ==
    /\ mpc = "loop"
    /\ i < found
    /\ \E outcome \in Outcomes :
          /\ ok_count' = SessionCountAfter(ok_count, outcome)
          /\ skipped_count' = SkippedCountAfter(skipped_count, outcome)
          /\ saved' = IF outcome = "saved" THEN saved \cup {i} ELSE saved
    /\ i' = i + 1
    /\ UNCHANGED <<env, mpc, con, exit_status, found>>
    /\ UNCHANGED <<accVars, detVars>>

\* the summary of lines 162-166, the return, and con.close() in finally
Summary ==
    /\ mpc = "loop"
    /\ i >= found
    /\ mpc' = "exited"
    /\ con' = "closed"
    /\ exit_status' = ExitAfterReturn
    /\ UNCHANGED <<env, found, i, ok_count, skipped_count, saved>>
    /\ UNCHANGED <<accVars, detVars>>

NextMain ==
    \/ CheckDbFile
    \/ Connect
    \/ Validate
    \/ FetchSessions
    \/ ProcessSession
    \/ Summary

SpecMain == InitMain /\ [][NextMain]_vars

----------------------------------------------------------------------------
(* Properties of the command surface                                       *)

\* the run met an unusable source: the database file is missing, or the
\* connection failed, or the requested validation failed, or the session
\* query raised
SourceUnusable ==
    \/ ~env.db_exists
    \/ ~env.connect_ok
    \/ env.validate /\ ~env.valid
    \/ ~env.query_ok

\* C10 (as claimed): whenever the source is unusable the run is aborted (no
\* session is processed) and the process exits with a non-zero status.
C10_Original ==
    (mpc = "exited" /\ SourceUnusable) =>
        /\ i = 0
        /\ saved = {}
        /\ exit_status # 0

\* C13 (as claimed): at the end of a run every detected session has been
\* counted exactly once: session_count + skipped_count is the number of
\* detected sessions, whatever failures occurred.
C13_Original ==
    mpc = "exited" => ok_count + skipped_count = found

====
